---------------------------- MODULE Spec2Model ----------------------------
(***************************************************************************)
(* A model of safetensors-reader (src/src/lib.rs): Reader::from_file reads *)
(* the 8-byte length prefix, the JSON metadata block, sorts the tensor     *)
(* names by start offset and decodes every tensor in a rayon parallel      *)
(* iterator, one task per name, each task with a File handle of its own.   *)
(*                                                                         *)
(* A file is a byte sequence (bytes are 0..255) together with the JSON     *)
(* document its metadata block encodes.  The JSON text itself is not       *)
(* spelled out byte by byte: serde's Deserialize is modelled on the        *)
(* document (object keys, present and missing fields, array lengths).      *)
(***************************************************************************)
EXTENDS Integers, Sequences, FiniteSets, TLC

\* ------------------------------------------------------------------ bounds
\* data_offsets are drawn from 0..MaxOff, and the data region has MaxOff bytes
MaxOff == 4
\* N, the length of the metadata block of the modelled files
MetaLen == 3
\* usize is modelled UsizeBits wide (the arithmetic wraps modulo 2^UsizeBits)
UsizeBits == 8

UsizeMod == 2 ^ UsizeBits

\* ------------------------------------------------------------- file format
Names == {"a", "b"}
ReservedKey == "__metadata__"
Fields == {"dtype", "shape", "data_offsets"}
SupportedDtypes == {"U8", "F16", "BF16", "F32"}
Dtypes == SupportedDtypes \cup {"I64"}

\* the 8 little-endian bytes of an unsigned 64-bit integer below 2^16
to_le_bytes(x) == <<x % 256, (x \div 256) % 256, 0, 0, 0, 0, 0, 0>>

RECURSIVE from_le_bytes(_)
\* u64::from_le_bytes: the first byte is the least significant
from_le_bytes(bs) ==
    IF bs = <<>> THEN 0 ELSE Head(bs) + 256 * from_le_bytes(Tail(bs))

\* the bytes of the metadata block (JSON text, all printable ASCII)
MetaBytes == [i \in 1..MetaLen |-> 123]
\* the bytes of the data region: every position holds a different value
DataBytes == [i \in 1..MaxOff |-> 15 + 2 * i]
FullBytes == to_le_bytes(MetaLen) \o MetaBytes \o DataBytes
FullLen == Len(FullBytes)

\* ------------------------------------------------------------- JSON inputs
Shapes == {<<2>>, <<1, 2>>}
OffsetPairs == {<<s, e>> : s \in 0..MaxOff, e \in 0..MaxOff}
\* data_offsets arrays that are not 2 elements long
OddOffsets == {<<>>, <<0>>, <<0, 2, 4>>}

Descriptor(dt, sh, offs) == [dtype |-> dt, shape |-> sh, data_offsets |-> offs]

\* descriptors with all three fields and a 2-element data_offsets
DecodeDescs(sh) == {Descriptor(dt, sh, o) : dt \in Dtypes, o \in OffsetPairs}
\* descriptors the header family uses: a few well-formed ones, ones with a
\* data_offsets of the wrong length, ones with a field missing
HeaderDescs ==
    {Descriptor(dt, sh, <<0, 4>>) : dt \in {"U8", "F32"}, sh \in Shapes}
      \cup {Descriptor("F16", <<2>>, o) : o \in OddOffsets}
      \cup {[dtype |-> "F16", shape |-> <<2>>],
            [dtype |-> "F16", data_offsets |-> <<0, 4>>],
            [shape |-> <<2>>, data_offsets |-> <<0, 4>>]}

\* values of the reserved key: opaque JSON, one of them shaped like a descriptor
MetaValues == {[format |-> "pt"], Descriptor("U8", <<1>>, <<0, 1>>)}

\* the JSON object with the given tensor entries, with or without the
\* reserved key
Doc(items, meta) ==
    [valid |-> TRUE,
     obj |-> [k \in DOMAIN items \cup DOMAIN meta |->
                IF k \in DOMAIN meta THEN meta[k] ELSE items[k]]]
InvalidDoc == [valid |-> FALSE, obj |-> <<>>]

NoMeta == <<>>
WithMeta(v) == [k \in {ReservedKey} |-> v]

\* files whose header and metadata are well formed apart from the dtype and
\* the offsets, with two tensors: the decode family
DecodeFiles ==
    {[bytes |-> FullBytes,
      json |-> Doc([k \in Names |-> IF k = "a" THEN da ELSE db],
                   WithMeta([format |-> "pt"]))] :
        da \in DecodeDescs(<<2>>), db \in DecodeDescs(<<1, 2>>)}

\* files that vary the header: truncated at every stage, invalid JSON, the
\* reserved key present or absent, zero to two tensors, malformed descriptors
HeaderLens == {4, 8, 8 + MetaLen - 1, 8 + MetaLen, FullLen}
HeaderItems ==
    UNION {[ks -> HeaderDescs] : ks \in SUBSET Names}
HeaderDocs ==
    {InvalidDoc}
      \cup {Doc(items, NoMeta) : items \in HeaderItems}
      \cup {Doc(items, WithMeta(v)) : items \in HeaderItems, v \in MetaValues}
HeaderFiles ==
    {[bytes |-> SubSeq(FullBytes, 1, l), json |-> d] :
        l \in HeaderLens, d \in HeaderDocs}

Files == DecodeFiles \cup HeaderFiles


\* ------------------------------------------------------------------- state
VARIABLES
    file,             \* the file at `path`: its bytes and the JSON they encode
    overflow_checks,  \* the build profile: TRUE panics on usize overflow
    pc,               \* where from_file is
    cursor,           \* the position of `file`, from_file's own handle
    n,                \* the metadata length read from the prefix
    json_data,        \* the deserialized Metadata
    ordered_keys,     \* the tensor names sorted by data_offsets[0]
    tpc,              \* per tensor name: where its decode task is
    fpos,             \* per File handle opened by a task: its position
    size,             \* per task: the local `size`
    result,           \* per task: the Tensor its closure returned
    err,              \* the error from_file returned
    reader            \* the Reader from_file returned

vars == <<file, overflow_checks, pc, cursor, n, json_data, ordered_keys,
          tpc, fpos, size, result, err, reader>>

NoTensor == [variant |-> "none", data |-> <<>>, shape |-> <<>>]
NoMetadata == [metadata |-> <<>>, items |-> <<>>]
NoReader == [metadata |-> <<>>, tensors |-> <<>>]

\* -------------------------------------------------------------- file reads
\* Read::read_exact on a handle at position pos: the next `count` bytes, or
\* UnexpectedEof when the file holds fewer
read_exact(bytes, pos, count) ==
    IF pos + count <= Len(bytes)
    THEN [ok |-> TRUE, buf |-> SubSeq(bytes, pos + 1, pos + count),
          err |-> "none"]
    ELSE [ok |-> FALSE, buf |-> <<>>, err |-> "UnexpectedEof"]

read_bytes(bytes, pos, sz) == read_exact(bytes, pos, sz)

\* the little-endian words of a byte buffer, `width` bytes each
RECURSIVE le_words(_, _)
le_words(buf, width) ==
    IF Len(buf) < width THEN <<>>
    ELSE <<from_le_bytes(SubSeq(buf, 1, width))>>
           \o le_words(SubSeq(buf, width + 1, Len(buf)), width)

read_bytes_u16(bytes, pos, sz) ==
    LET r == read_exact(bytes, pos, 2 * sz)
    IN  [r EXCEPT !.buf = le_words(r.buf, 2)]

read_bytes_f32(bytes, pos, sz) ==
    LET r == read_exact(bytes, pos, 4 * sz)
    IN  [r EXCEPT !.buf = le_words(r.buf, 4)]

\* ------------------------------------------------------------------- serde
\* a JSON value deserializes as MetadataValue when it has the three fields
\* (unknown fields are ignored; Vec<usize> takes an array of any length)
IsMetadataValue(v) == Fields \subseteq DOMAIN v

\* serde_json::from_slice::<Metadata>: the reserved key fills `metadata` (a
\* field without a default: required), every other key goes to `items`
deserialize(doc) ==
    IF ~doc.valid THEN [ok |-> FALSE, value |-> NoMetadata]
    ELSE IF ReservedKey \notin DOMAIN doc.obj
    THEN [ok |-> FALSE, value |-> NoMetadata]
    ELSE IF \E k \in DOMAIN doc.obj \ {ReservedKey} :
                ~IsMetadataValue(doc.obj[k])
    THEN [ok |-> FALSE, value |-> NoMetadata]
    ELSE [ok |-> TRUE,
          value |-> [metadata |-> doc.obj[ReservedKey],
                     items |-> [k \in DOMAIN doc.obj \ {ReservedKey} |->
                                  doc.obj[k]]]]

Keys == DOMAIN json_data.items
Value(k) == json_data.items[k]

\* -------------------------------------------------------------------- Init
Init ==
    /\ file \in Files
    /\ overflow_checks \in BOOLEAN
    /\ pc = "start"
    /\ cursor = 0
    /\ n = 0
    /\ json_data = NoMetadata
    /\ ordered_keys = <<>>
    /\ tpc = [k \in Names |-> "idle"]
    /\ fpos = [k \in Names |-> 0]
    /\ size = [k \in Names |-> 0]
    /\ result = [k \in Names |-> NoTensor]
    /\ err = "none"
    /\ reader = NoReader

\* ------------------------------------------------------- from_file, header
\* lines 53-57: open the file, read the 8-byte prefix, decode N
ReadPrefix ==
    /\ pc = "start"
    /\ LET r == read_bytes(file.bytes, cursor, 8)
       IN  IF r.ok
           THEN /\ n' = from_le_bytes(r.buf)
                /\ cursor' = cursor + 8
                /\ pc' = "prefix"
                /\ err' = err
           ELSE /\ pc' = "err"
                /\ err' = r.err
                /\ UNCHANGED <<n, cursor>>
    /\ UNCHANGED <<file, overflow_checks, json_data, ordered_keys, tpc, fpos,
                   size, result, reader>>

\* line 60: read the N bytes of the metadata block
ReadJson ==
    /\ pc = "prefix"
    /\ LET r == read_bytes(file.bytes, cursor, n)
       IN  IF r.ok
           THEN /\ cursor' = cursor + n
                /\ pc' = "json"
                /\ err' = err
           ELSE /\ pc' = "err"
                /\ err' = r.err
                /\ cursor' = cursor
    /\ UNCHANGED <<file, overflow_checks, n, json_data, ordered_keys, tpc,
                   fpos, size, result, reader>>

\* line 62: serde_json::from_slice(..).expect("Invalid JSON")
ParseJson ==
    /\ pc = "json"
    /\ LET r == deserialize(file.json)
       IN  IF r.ok
           THEN /\ json_data' = r.value
                /\ pc' = "parsed"
           ELSE /\ pc' = "panic"
                /\ json_data' = json_data
    /\ UNCHANGED <<file, overflow_checks, cursor, n, ordered_keys, tpc, fpos,
                   size, result, err, reader>>

\* the orders of the keys that are sorted by data_offsets[0]
SortedOrders ==
    {o \in [1..Cardinality(Keys) -> Keys] :
        /\ \A i, j \in DOMAIN o : i # j => o[i] # o[j]
        /\ \A i, j \in DOMAIN o :
              i < j => Value(o[i]).data_offsets[1] <= Value(o[j]).data_offsets[1]}

\* lines 64-65: collect the keys (in the HashMap's order) and sort them by
\* data_offsets[0]; the sort evaluates every key when there are two or more,
\* and indexing an empty data_offsets panics
SortKeys ==
    /\ pc = "parsed"
    /\ IF Cardinality(Keys) >= 2
            /\ \E k \in Keys : Len(Value(k).data_offsets) = 0
       THEN /\ pc' = "panic"
            /\ ordered_keys' = ordered_keys
       ELSE /\ pc' = "fanout"
            /\ IF Cardinality(Keys) >= 2
               THEN ordered_keys' \in SortedOrders
               ELSE ordered_keys' \in [1..Cardinality(Keys) -> Keys]
    /\ UNCHANGED <<file, overflow_checks, cursor, n, json_data, tpc, fpos,
                   size, result, err, reader>>

\* ---------------------------------------------------------- usize arithmetic
\* a - b and a + b on usize: the wrapped value, and whether it overflowed (a
\* panic when the build checks overflow, a silent wrap when it does not)
usize_sub(a, b) == [overflow |-> a < b, value |-> (a - b) % UsizeMod]
usize_add(a, b) == [overflow |-> a + b >= UsizeMod, value |-> (a + b) % UsizeMod]

\* ------------------------------------------------------------ decode tasks
Start(k) == Value(k).data_offsets[1]
End(k) == Value(k).data_offsets[2]

\* the enum variant each dtype arm builds
Variant(dtype) == IF dtype = "BF16" THEN "Bf16" ELSE dtype

\* line 76: let size = end - start + 1
U8Size(start, end, checks) ==
    LET d == usize_sub(end, start)
        s == usize_add(d.value, 1)
    IN  [panic |-> checks /\ (d.overflow \/ s.overflow), size |-> s.value]

\* lines 88-89 and 103-104: assert_eq!((end - start) % 2, 0); (end - start) / 2
F16Size(start, end, checks) ==
    LET d == usize_sub(end, start)
    IN  [panic |-> (checks /\ d.overflow) \/ d.value % 2 # 0,
         size |-> d.value \div 2]

\* lines 118-119: assert_eq!((end - start) % 2, 0); (end - start) / 4
F32Size(start, end, checks) ==
    LET d == usize_sub(end, start)
    IN  [panic |-> (checks /\ d.overflow) \/ d.value % 2 # 0,
         size |-> d.value \div 4]

\* lines 72-76, 88-89, 103-104, 118-119, 131: index data_offsets, dispatch on
\* the dtype, check the alignment, compute the size; panics on a short
\* data_offsets, a failed assert, an overflow (checked build), another dtype
TaskSize(v, checks) ==
    IF Len(v.data_offsets) < 2 THEN [panic |-> TRUE, size |-> 0]
    ELSE LET start == v.data_offsets[1]
             end == v.data_offsets[2]
         IN  CASE v.dtype = "U8" -> U8Size(start, end, checks)
               [] v.dtype \in {"F16", "BF16"} -> F16Size(start, end, checks)
               [] v.dtype = "F32" -> F32Size(start, end, checks)
               [] OTHER -> [panic |-> TRUE, size |-> 0]

\* one handle that all the tasks would share
SharedHandle(k) == "a"

\* line 70: every task opens the file again; its handle is its own
Handle(k) == k

\* lines 70-76 (and the same lines of the other arms): the task of key k
\* opens its handle and computes its size
TaskStart(k) ==
    /\ pc = "fanout"
    /\ k \in Keys
    /\ tpc[k] = "idle"
    /\ fpos' = [fpos EXCEPT ![Handle(k)] = 0]
    /\ LET s == TaskSize(Value(k), overflow_checks)
       IN  IF s.panic
           THEN /\ tpc' = [tpc EXCEPT ![k] = "panicked"]
                /\ size' = size
           ELSE /\ tpc' = [tpc EXCEPT ![k] = "sized"]
                /\ size' = [size EXCEPT ![k] = s.size]
    /\ UNCHANGED <<file, overflow_checks, pc, cursor, n, json_data,
                   ordered_keys, result, err, reader>>

\* lines 90, 105, 120: f.seek(SeekFrom::Start(start)); the U8 arm has no seek
TaskSeek(k) ==
    /\ pc = "fanout"
    /\ k \in Keys
    /\ tpc[k] = "sized"
    /\ Value(k).dtype # "U8"
    /\ fpos' = [fpos EXCEPT ![Handle(k)] = Start(k)]
    /\ tpc' = [tpc EXCEPT ![k] = "seeked"]
    /\ UNCHANGED <<file, overflow_checks, pc, cursor, n, json_data,
                   ordered_keys, size, result, err, reader>>

\* the read of each arm: read_bytes, read_bytes_u16 or read_bytes_f32
ReadAs(dtype, bytes, pos, sz) ==
    CASE dtype = "U8" -> read_bytes(bytes, pos, sz)
      [] dtype = "F32" -> read_bytes_f32(bytes, pos, sz)
      [] OTHER -> read_bytes_u16(bytes, pos, sz)

\* the read of task k, at the position of its handle
TaskReadResult(k) ==
    ReadAs(Value(k).dtype, file.bytes, fpos[Handle(k)], size[k])

\* the bytes one element of the dtype takes
Width(dtype) ==
    CASE dtype = "U8" -> 1
      [] dtype = "F32" -> 4
      [] OTHER -> 2

\* lines 77-85, 91-100, 106-115, 121-129: read (unwrap: a failed read
\* panics) and build the Tensor with a clone of the shape
TaskRead(k) ==
    /\ pc = "fanout"
    /\ k \in Keys
    /\ \/ tpc[k] = "sized" /\ Value(k).dtype = "U8"
       \/ tpc[k] = "seeked"
    /\ LET r == TaskReadResult(k)
       IN  IF r.ok
           THEN /\ tpc' = [tpc EXCEPT ![k] = "done"]
                /\ result' = [result EXCEPT ![k] =
                                [variant |-> Variant(Value(k).dtype),
                                 data |-> r.buf,
                                 shape |-> Value(k).shape]]
                /\ fpos' = [fpos EXCEPT ![Handle(k)] =
                              @ + size[k] * Width(Value(k).dtype)]
           ELSE /\ tpc' = [tpc EXCEPT ![k] = "panicked"]
                /\ UNCHANGED <<result, fpos>>
    /\ UNCHANGED <<file, overflow_checks, pc, cursor, n, json_data,
                   ordered_keys, size, err, reader>>

InFlight(k) == tpc[k] \in {"sized", "seeked"}

\* lines 134-139: collect() returns once no task is running; a panic of a
\* task is resumed in from_file (tasks not yet started may then be skipped),
\* otherwise every task has returned its pair and the Reader is built
Join ==
    /\ pc = "fanout"
    /\ \A k \in Keys : ~InFlight(k)
    /\ IF \E k \in Keys : tpc[k] = "panicked"
       THEN /\ pc' = "panic"
            /\ reader' = reader
       ELSE /\ \A k \in Keys : tpc[k] = "done"
            /\ pc' = "ok"
            /\ reader' = [metadata |-> json_data.metadata,
                          tensors |-> [k \in Keys |-> result[k]]]
    /\ UNCHANGED <<file, overflow_checks, cursor, n, json_data, ordered_keys,
                   tpc, fpos, size, result, err>>

Next ==
    \/ ReadPrefix
    \/ ReadJson
    \/ ParseJson
    \/ SortKeys
    \/ \E k \in Names : TaskStart(k)
    \/ \E k \in Names : TaskSeek(k)
    \/ \E k \in Names : TaskRead(k)
    \/ Join

Spec == Init /\ [][Next]_vars

\* from_file has returned or unwound
Finished == pc \in {"ok", "err", "panic"}

\* ----------------------------------------------------- the format's terms
\* the tensor names the metadata block declares
DeclaredNames == DOMAIN file.json.obj \ {ReservedKey}
HasReservedKey == ReservedKey \in DOMAIN file.json.obj
\* the metadata length the prefix states, when the prefix is there
PrefixN == from_le_bytes(SubSeq(file.bytes, 1, 8))
TruncatedHeader == Len(file.bytes) < 8
TruncatedMetadata == Len(file.bytes) >= 8 /\ Len(file.bytes) < 8 + PrefixN
DataLen == Len(file.bytes) - 8 - PrefixN

\* a descriptor as section 6 of the format defines it
HasFields(v) == Fields \subseteq DOMAIN v
WellFormedDesc(v) ==
    /\ HasFields(v)
    /\ Len(v.data_offsets) = 2
    /\ v.dtype \in SupportedDtypes
    /\ v.data_offsets[1] <= v.data_offsets[2]
    /\ v.data_offsets[2] <= DataLen
    /\ (v.data_offsets[2] - v.data_offsets[1]) % Width(v.dtype) = 0
WellFormedFile ==
    /\ ~TruncatedHeader
    /\ ~TruncatedMetadata
    /\ file.json.valid
    /\ \A k \in DeclaredNames : WellFormedDesc(file.json.obj[k])
\* the metadata block is there but is not the JSON the format asks for
MalformedMetadata ==
    /\ ~TruncatedHeader
    /\ ~TruncatedMetadata
    /\ \/ ~file.json.valid
       \/ \E k \in DeclaredNames :
             \/ ~HasFields(file.json.obj[k])
             \/ Len(file.json.obj[k].data_offsets) # 2

HasRange(k) == Len(Value(k).data_offsets) >= 2
NoTaskStarted == \A k \in Names : tpc[k] = "idle"
\* the bytes the format declares for tensor k
DeclaredBytes(k) == SubSeq(file.bytes, 8 + n + Start(k) + 1, 8 + n + End(k))
ReadyToRead(k) ==
    \/ tpc[k] = "sized" /\ Value(k).dtype = "U8"
    \/ tpc[k] = "seeked"

\* ------------------------------------------------------------------ claims
\* C1: the decode task of every well-formed descriptor (a supported dtype, an
\* aligned range inside the data region) has its cursor at 8 + N + start when
\* it reads, and the tensor it builds holds the file bytes of the absolute
\* range [8+N+start, 8+N+end), decoded by the dtype's width.
C1_ReadsDeclaredRange ==
    \A k \in Keys :
        WellFormedDesc(Value(k)) =>
            /\ ReadyToRead(k) => fpos[Handle(k)] = 8 + n + Start(k)
            /\ tpc[k] = "done" =>
                  result[k].data = le_words(DeclaredBytes(k),
                                            Width(Value(k).dtype))

\* C2: a decoded U8 tensor with data_offsets [start, end], start <= end (and
\* end inside the data region), has exactly end - start elements.
C2_U8ExclusiveEnd ==
    \A k \in Keys :
        (WellFormedDesc(Value(k)) /\ Value(k).dtype = "U8"
                                  /\ tpc[k] = "done") =>
            Len(result[k].data) = End(k) - Start(k)

\* C3: an F16, BF16 or F32 descriptor whose end - start is not a multiple of
\* the element width never yields a tensor, and every tensor that is yielded
\* has buffer length * width = end - start.
C3_NoSilentTruncation ==
    \A k \in Keys :
        (HasRange(k) /\ Value(k).dtype \in {"F16", "BF16", "F32"}
                     /\ Start(k) <= End(k) /\ End(k) <= DataLen
                     /\ tpc[k] = "done") =>
            /\ (End(k) - Start(k)) % Width(Value(k).dtype) = 0
            /\ Len(result[k].data) * Width(Value(k).dtype) = End(k) - Start(k)

\* C4: the task of a tensor with an unsupported dtype does not panic, and
\* from_file still returns the Reader with every well-formed sibling in it.
C4_UnsupportedDtypeRecoverable ==
    \A k \in Keys :
        Value(k).dtype \notin SupportedDtypes =>
            /\ tpc[k] # "panicked"
            /\ Finished =>
                  /\ pc = "ok"
                  /\ \A j \in Keys :
                        WellFormedDesc(Value(j)) => j \in DOMAIN reader.tensors

\* the error a file shorter than the prefix is answered with
TruncatedHeaderErr == read_bytes(<<>>, 0, 8).err

\* C5: a truncated header and a truncated metadata block are answered with
\* errors (no panic, no task started), and the error of the truncated
\* metadata block is not the error of the truncated header.
C5_DistinctTruncationErrors ==
    /\ (TruncatedHeader /\ Finished) =>
          pc = "err" /\ err = TruncatedHeaderErr /\ NoTaskStarted
    /\ (TruncatedMetadata /\ Finished) =>
          pc = "err" /\ err # "none" /\ err # TruncatedHeaderErr /\ NoTaskStarted

\* C6: a metadata block that is not valid JSON, or has a descriptor with a
\* field missing or a data_offsets that is not 2 elements long, makes
\* from_file return an error: it does not panic and it builds no Reader.
C6_MalformedMetadataIsErr ==
    (MalformedMetadata /\ Finished) => pc = "err" /\ err # "none"

\* C7: a well-formed file without the reserved key opens and yields all its
\* tensors; with the reserved key, its value is Reader.metadata and the key
\* is no tensor.
C7_ReservedKeyOptional ==
    /\ (WellFormedFile /\ ~HasReservedKey /\ Finished) =>
          pc = "ok" /\ DOMAIN reader.tensors = DeclaredNames
    /\ (pc = "ok" /\ HasReservedKey) =>
          /\ reader.metadata = file.json.obj[ReservedKey]
          /\ ReservedKey \notin DOMAIN reader.tensors

\* what the task of key k builds out of the file and its descriptor alone,
\* whatever the other tasks do: the read at its own start of its own size
ExpectedRead(k) ==
    ReadAs(Value(k).dtype, file.bytes,
           IF Value(k).dtype = "U8" THEN 0 ELSE Start(k),
           TaskSize(Value(k), overflow_checks).size)
ExpectedPanic(k) ==
    TaskSize(Value(k), overflow_checks).panic \/ ~ExpectedRead(k).ok
ExpectedTensor(k) ==
    [variant |-> Variant(Value(k).dtype),
     data |-> ExpectedRead(k).buf,
     shape |-> Value(k).shape]

\* C8: the outcome of every task, and the map from_file returns, are fixed by
\* the file: whatever the order in which the tasks start and however their
\* steps interleave, a task that finishes has built the tensor that its
\* descriptor and the file determine, a task panics only when it would
\* panic running alone, and the Reader holds exactly those tensors.
C8_OrderIndependent ==
    /\ \A k \in Keys :
          /\ tpc[k] = "done" => ~ExpectedPanic(k) /\ result[k] = ExpectedTensor(k)
          /\ tpc[k] = "panicked" => ExpectedPanic(k)
    /\ pc = "ok" => reader.tensors = [k \in Keys |-> ExpectedTensor(k)]

\* two tasks in flight at once, the later key of ordered_keys finished
\* before the earlier one has read, at different positions of the file
C8_Witness ==
    /\ pc = "fanout"
    /\ Len(ordered_keys) = 2
    /\ tpc[ordered_keys[1]] = "seeked"
    /\ tpc[ordered_keys[2]] = "done"
    /\ Start(ordered_keys[1]) # Start(ordered_keys[2])
    /\ Len(result[ordered_keys[2]].data) > 0
    /\ size[ordered_keys[1]] > 0

\* C9: from_file returns Ok only when every task is done, the Reader then
\* has one tensor per declared name with the variant and the shape of its
\* descriptor, and on a well-formed file from_file does end in Ok.
C9_JoinBarrier ==
    /\ pc = "ok" =>
          /\ \A k \in Keys : tpc[k] = "done"
          /\ DOMAIN reader.tensors = DeclaredNames
          /\ \A k \in DeclaredNames :
                /\ reader.tensors[k].variant = Variant(file.json.obj[k].dtype)
                /\ reader.tensors[k].shape = file.json.obj[k].shape
    /\ (WellFormedFile /\ Finished) => pc = "ok"

\* C10: the task of a descriptor with start > end computes no size, reads
\* nothing and does not panic.
C10_RangeCheckedFirst ==
    \A k \in Keys :
        (HasRange(k) /\ Start(k) > End(k)) =>
            tpc[k] \notin {"sized", "seeked", "done", "panicked"}

=============================================================================
